---- MODULE Spec2Model ----
(***************************************************************************)
(* The admission policies of Kai_Project_copy.ipynb: the function          *)
(* naive_policy and the classes NaivePolicy, UnawarePolicy and FairPolicy  *)
(* (their train and evaluate methods).                                     *)
(*                                                                         *)
(* A behaviour follows one policy (the function, or one instance of a      *)
(* class from its construction).  The                                      *)
(* experiment's columns are drawn once (data); every call passes the first *)
(* `rows` rows of the columns its method takes, one of them possibly one   *)
(* row shorter (a shape mismatch).  A column is a sequence of integers and *)
(* stands for an array of shape (Len, 1).                                  *)
(*                                                                         *)
(* Arithmetic is exact.  np.std, the PCA direction and the ranking scores  *)
(* are irrational in general; the model keeps them as integers under a     *)
(* square root and decides every comparison exactly (SignSqrtSum).  A      *)
(* score vector is kept as its order keys: key[i] is the number of rows    *)
(* scored strictly below row i, which is all argsort reads of it.          *)
(***************************************************************************)
EXTENDS Integers, Sequences, FiniteSets, TLC

\* Bounds of the model.
MaxObs == 3
MaxVal == 1
MaxSeats == 4
NumSeeds == 2

\* The default of naive_policy's nb_seats parameter.
DefaultSeats == 200

\* test_size=0.33 of train_test_split, as a percentage.
TestPct == 33

VARIABLES cls, data, F_reg, G_reg, L_reg, A_reg, sgn, fitBy, ret

vars == <<cls, data, F_reg, G_reg, L_reg, A_reg, sgn, fitBy, ret>>

(***************************************************************************)
(* Integer helpers.                                                        *)
(***************************************************************************)
Sign(x) == IF x > 0 THEN 1 ELSE IF x < 0 THEN -1 ELSE 0

Abs(x) == IF x < 0 THEN -x ELSE x

Min(a, b) == IF a <= b THEN a ELSE b

Max(a, b) == IF a >= b THEN a ELSE b

RECURSIVE GCD(_, _)
GCD(a, b) == IF b = 0 THEN Abs(a) ELSE GCD(Abs(b), Abs(a) % Abs(b))

RECURSIVE SumSeq(_)
SumSeq(s) == IF s = <<>> THEN 0 ELSE Head(s) + SumSeq(Tail(s))

Dot(x, y) == SumSeq([i \in 1..Len(x) |-> x[i] * y[i]])

\* The sign of a*sqrt(u) + b*sqrt(v), for u, v >= 0.
SignSqrtSum(a, u, b, v) == Sign(Sign(a) * a * a * u + Sign(b) * b * b * v)

\* x[T] for an index set T, in index order.
RECURSIVE TakeFrom(_, _, _)
TakeFrom(x, T, i) ==
    IF i > Len(x) THEN <<>>
    ELSE (IF i \in T THEN <<x[i]>> ELSE <<>>) \o TakeFrom(x, T, i + 1)

Take(x, T) == TakeFrom(x, T, 1)

\* The order keys of n scores compared by cmp[i][j] = sign(score i - score j).
OrderKeys(n, cmp) ==
    [i \in 1..n |-> Cardinality({j \in 1..n : cmp[j][i] < 0})]

(***************************************************************************)
(* Values.                                                                 *)
(***************************************************************************)
\* An attribute that was never assigned (reading it raises AttributeError).
NoAttr == [set |-> FALSE]

\* A score vector: all NaN, or ordered by its keys.
NoScore == [computed |-> FALSE, nan |-> FALSE, key |-> <<>>]

Scores(nan, key) == [computed |-> TRUE, nan |-> nan, key |-> key]

\* The nb_seats argument: None, an int, a bool (a subclass of int), a float.
NoneSeats == [kind |-> "NoneType", val |-> 0]

Seats ==
    {NoneSeats}
    \cup {[kind |-> "int", val |-> v] : v \in -1..MaxSeats}
    \cup {[kind |-> "bool", val |-> 1]}
    \cup {[kind |-> "float", val |-> 2]}

\* isinstance(nb_seats, int)
IsInstanceInt(s) == s.kind \in {"int", "bool"}

Columns(n, hi) == [1..n -> 0..hi]

Shape(x) == <<Len(x), 1>>

(***************************************************************************)
(* normalize and the ranking shared by the three evaluate methods.         *)
(***************************************************************************)
\* n * (x - np.mean(x)), as integers.
Deviations(x) == [i \in 1..Len(x) |-> Len(x) * x[i] - SumSeq(x)]

\* n^3 * np.std(x)^2
SumSqDev(x) == Dot(Deviations(x), Deviations(x))

\* A normalize that guards the division: a column without variance is
\* normalized to all zeros.
normalizeGuarded(x) ==
    [nan |-> FALSE, dev |-> Deviations(x),
     rad |-> IF SumSqDev(x) = 0 THEN 1 ELSE SumSqDev(x)]

\* normalize(x) is (x - mean) / std: all NaN when std is 0 (0/0), otherwise
\* row i is dev[i] * sqrt(n / rad).
normalize(x) ==
    [nan |-> SumSqDev(x) = 0, dev |-> Deviations(x), rad |-> SumSqDev(x)]

\* normalize(G) + normalize(L)
NaiveScore(G, L) ==
    LET g == normalize(G)
        l == normalize(L)
        Cmp(i, j) == SignSqrtSum(g.dev[i] - g.dev[j], l.rad,
                                 l.dev[i] - l.dev[j], g.rad)
    IN  IF g.nan \/ l.nan
        THEN Scores(TRUE, [i \in 1..Len(G) |-> 0])
        ELSE Scores(FALSE, OrderKeys(Len(G), [i \in 1..Len(G) |-> [j \in 1..Len(G) |-> Cmp(i, j)]]))

\* The permutations of 1..n.
Perms(n) == {p \in [1..n -> 1..n] : \A i, j \in 1..n : i # j => p[i] # p[j]}

\* An argsort in descending order.
argsortDescending(score) ==
    LET n == Len(score.key)
    IN  {p \in Perms(n) :
            \A i, j \in 1..n : i < j => score.key[p[i]] >= score.key[p[j]]}

\* score.argsort(axis=0): the default kind is quicksort, which is not
\* stable, so any permutation that sorts the scores ascending may come back.
\* NaN sorts last; an all-NaN column is all ties.
argsort(score) ==
    LET n == Len(score.key)
    IN  {p \in Perms(n) :
            \A i, j \in 1..n : i < j => score.key[p[i]] <= score.key[p[j]]}

\* s[k:]: the slice without the minus sign.
TailSliceFrom(s, k) == SubSeq(s, Min(Max(k, 0), Len(s)) + 1, Len(s))

\* s[-k:] of Python.
TailSlice(s, k) ==
    LET n == Len(s)
        start == IF -k < 0 THEN Max(n - k, 0) ELSE Min(-k, n)
    IN  SubSeq(s, start + 1, n)

\* s[::-1]
Reverse(s) == [i \in 1..Len(s) |-> s[Len(s) + 1 - i]]

\* order[:nb_seats]: the lowest scores instead of the highest.
TopIndicesLowest(order, nb_seats) == SubSeq(order, 1, Min(nb_seats, Len(order)))

\* ind = order[-nb_seats:][::-1]
TopIndices(order, nb_seats) == Reverse(TailSlice(order, nb_seats))

\* P = np.zeros([nb_obs, 1]).astype(bool); P[ind] = True
Mask(nb_obs, ind) ==
    [i \in 1..nb_obs |-> \E j \in 1..Len(ind) : ind[j] = i]

\* nb_seats >= 0 in place of nb_seats > 0.
SeatsValidNonNegative(nb_seats) ==
    nb_seats.kind = "NoneType" \/ (IsInstanceInt(nb_seats) /\ nb_seats.val >= 0)

\* The assertion of the nb_seats block of every evaluate.
SeatsValid(nb_seats) ==
    nb_seats.kind = "NoneType" \/ (IsInstanceInt(nb_seats) /\ nb_seats.val > 0)

\* A default one short of nb_obs.
SeatCountShortDefault(nb_obs, nb_seats) ==
    IF nb_seats.kind = "NoneType" THEN nb_obs - 1 ELSE Min(nb_obs, nb_seats.val)

\* nb_seats after the block: nb_obs by default, else min(nb_obs, nb_seats).
SeatCount(nb_obs, nb_seats) ==
    IF nb_seats.kind = "NoneType" THEN nb_obs ELSE Min(nb_obs, nb_seats.val)

(***************************************************************************)
(* Calls and their arguments.                                              *)
(***************************************************************************)
\* The argument passed for column c: its first `rows` rows, one fewer when c
\* is the short one.
Arg(c, rows, short) == SubSeq(data[c], 1, IF short = c THEN rows - 1 ELSE rows)

\* The last call and what came of it (history kept for the properties):
\* prior says how a train call relates to the train call before it.
NoCall ==
    [op |-> "none", rows |-> 0, short |-> "none", seats |-> NoneSeats,
     seed |-> 0, prior |-> "none", out |-> "none", score |-> NoScore, P |-> <<>>]

Call(op, rows, short, seats, seed, prior, out, score, P) ==
    [op |-> op, rows |-> rows, short |-> short, seats |-> seats,
     seed |-> seed, prior |-> prior, out |-> out, score |-> score, P |-> P]

\* Where the fitted attributes stand (history kept for the properties): no
\* train call has assigned any yet, the last call to assign one raised before
\* it was through, or the last call to assign one returned (with its
\* arguments).  A call that raises before its first assignment changes nothing.
NeverTrained == [status |-> "never", rows |-> 0, seed |-> 0]

Raised == [status |-> "raised", rows |-> 0, seed |-> 0]

Returned(rows, seed) == [status |-> "returned", rows |-> rows, seed |-> seed]

Prior(rows, short, seed) ==
    IF fitBy.status # "returned" THEN "none"
    ELSE IF short = "none" /\ fitBy.rows = rows /\ fitBy.seed = seed THEN "same"
    ELSE "other"

\* A constructor that installs default (all-zero) fitted attributes.
ConstructFitted(c) ==
    LET zero == [set |-> TRUE, coef |-> <<0, 0>>, intercept |-> 0, den |-> 1]
    IN  [F_reg |-> zero, G_reg |-> zero, L_reg |-> zero,
         A_reg |-> [set |-> TRUE, mean |-> <<0, 0>>, den |-> 1,
                    explained_variance_zero |-> FALSE,
                    components |-> [p |-> <<1, 0>>, q |-> <<0, 0>>, rad |-> 0]],
         sgn |-> [set |-> TRUE, nan |-> FALSE, val |-> 1]]

\* __init__ of the three classes is `pass`: a new instance has no fitted
\* attribute.
Construct(c) ==
    [F_reg |-> NoAttr, G_reg |-> NoAttr, L_reg |-> NoAttr, A_reg |-> NoAttr,
     sgn |-> NoAttr]

\* A chained comparison cut short: only the first two shapes are compared.
SameShapeFirstTwo(cols) == Shape(cols[1]) = Shape(cols[2])

\* The precondition on the shapes: assert G.shape == L.shape, and
\* assert R.shape == S.shape == G.shape == L.shape.
SameShape(cols) == \A i, j \in 1..Len(cols) : Shape(cols[i]) = Shape(cols[j])

\* np.hstack and the elementwise + need equal row counts (ValueError).
SameRows(cols) == \A i, j \in 1..Len(cols) : Len(cols[i]) = Len(cols[j])

\* An evaluate that reads its fitted attributes before it checks its inputs.
EvaluateOutcomeFitFirst(cols, nb_seats, fitted) ==
    IF ~fitted THEN "AttributeError"
    ELSE IF ~SameShape(cols) \/ ~SeatsValid(nb_seats) THEN "AssertionError"
    ELSE IF ~SameRows(cols) THEN "ValueError"
    ELSE "returned"

\* evaluate up to its ranking: the exception it raises, or "returned".
EvaluateOutcome(cols, nb_seats, fitted) ==
    IF ~SameShape(cols) \/ ~SeatsValid(nb_seats) THEN "AssertionError"
    ELSE IF ~fitted THEN "AttributeError"
    ELSE IF ~SameRows(cols) THEN "ValueError"
    ELSE "returned"

\* The end of every evaluate: the ranking of the scores and the mask.
Ranked(rows, short, nb_seats, score) ==
    \E order \in argsort(score) :
        ret' = Call("evaluate", rows, short, nb_seats, 0, "none", "returned", score,
                    Mask(Len(score.key),
                         TopIndices(order, SeatCount(Len(score.key), nb_seats))))

Failed(op, rows, short, nb_seats, seed, prior, out) ==
    ret' = Call(op, rows, short, nb_seats, seed, prior, out, NoScore, <<>>)

(***************************************************************************)
(* NaivePolicy                                                             *)
(***************************************************************************)
NaiveEvaluate(rows, short, nb_seats) ==
    LET G == Arg("G", rows, short)
        L == Arg("L", rows, short)
        out == EvaluateOutcome(<<G, L>>, nb_seats, TRUE)
    IN  /\ cls = "NaivePolicy"
        /\ ret = NoCall
        /\ IF out # "returned"
           THEN Failed("evaluate", rows, short, nb_seats, 0, "none", out)
           ELSE Ranked(rows, short, nb_seats, NaiveScore(G, L))
        /\ UNCHANGED <<cls, data, F_reg, G_reg, L_reg, A_reg, sgn, fitBy>>

(***************************************************************************)
(* naive_policy, the function.  F is not a parameter: the name is looked   *)
(* up in the module's globals (data.F) when the assert runs.               *)
(***************************************************************************)
\* nb_seats left out of the call.
OmittedSeats == [kind |-> "omitted", val |-> 0]

\* nb_seats as the body sees it, before the comparison with nb_obs.
SeatsParameter(nb_seats) ==
    IF nb_seats.kind = "omitted" THEN [kind |-> "int", val |-> DefaultSeats]
    ELSE nb_seats

\* if nb_seats > nb_obs: nb_seats = nb_obs
SeatsClamped(nb_obs, nb_seats) ==
    IF nb_seats.val > nb_obs THEN [kind |-> "int", val |-> nb_obs] ELSE nb_seats

\* naive_policy up to its ranking: the exception it raises, or "returned".
\* None > nb_obs and a float slice bound are TypeErrors.
naive_policy_outcome(G, L, F, nb_seats) ==
    IF ~(Shape(G) = Shape(L) /\ Shape(L) = Shape(F)) THEN "AssertionError"
    ELSE IF SeatsParameter(nb_seats).kind = "NoneType" THEN "TypeError"
    ELSE IF SeatsClamped(Len(G), SeatsParameter(nb_seats)).kind = "float" THEN "TypeError"
    ELSE "returned"

naive_policy(rows, short, nb_seats) ==
    LET G == Arg("G", rows, short)
        L == Arg("L", rows, short)
        out == naive_policy_outcome(G, L, data.F, nb_seats)
        k == SeatsClamped(Len(G), SeatsParameter(nb_seats)).val
    IN  /\ cls = "naive_policy"
        /\ ret = NoCall
        /\ IF out # "returned"
           THEN Failed("naive_policy", rows, short, nb_seats, 0, "none", out)
           ELSE \E score \in {NaiveScore(G, L)} : \E order \in argsort(score) :
                    ret' = Call("naive_policy", rows, short, nb_seats, 0, "none",
                                "returned", score, Mask(Len(G), TopIndices(order, k)))
        /\ UNCHANGED <<cls, data, F_reg, G_reg, L_reg, A_reg, sgn, fitBy>>

(***************************************************************************)
(* train_test_split and LinearRegression.                                  *)
(***************************************************************************)
\* n_test = ceil(test_size * n_samples), n_train = n_samples - n_test
NTest(n) == (TestPct * n + 99) \div 100

NTrain(n) == n - NTest(n)

TrainSets(n) == {T \in SUBSET (1..n) : Cardinality(T) = NTrain(n)}

RECURSIVE Code(_)
Code(T) == IF T = {} THEN 0 ELSE LET i == CHOOSE i \in T : TRUE IN 2 ^ i + Code(T \ {i})

\* The training rows train_test_split draws from n rows when NumPy's global
\* generator is in state `seed` on entry: which rows it keeps is decided by
\* the generator's state alone (the shuffle is a function of it).
TrainRows(n, seed) ==
    CHOOSE T \in TrainSets(n) :
        Cardinality({U \in TrainSets(n) : Code(U) < Code(T)})
            = seed % Cardinality(TrainSets(n))

\* LinearRegression().fit(np.hstack([x1, x2]), y): least squares with an
\* intercept, the minimum-norm solution when the centred design is rank
\* deficient.  coef_ = coef / den, intercept_ = intercept / den, den > 0.
LinearRegressionFit(x1, x2, y) ==
    LET m == Len(y)
        s1 == SumSeq(x1)
        s2 == SumSeq(x2)
        sy == SumSeq(y)
        c11 == m * Dot(x1, x1) - s1 * s1
        c12 == m * Dot(x1, x2) - s1 * s2
        c22 == m * Dot(x2, x2) - s2 * s2
        c1y == m * Dot(x1, y) - s1 * sy
        c2y == m * Dot(x2, y) - s2 * sy
        det == c11 * c22 - c12 * c12
        n1 == IF det > 0 THEN c22 * c1y - c12 * c2y ELSE c1y
        n2 == IF det > 0 THEN c11 * c2y - c12 * c1y ELSE c2y
        d == IF det > 0 THEN det ELSE IF c11 + c22 > 0 THEN c11 + c22 ELSE 1
        ic == d * sy - n1 * s1 - n2 * s2
        g == GCD(GCD(m * n1, m * n2), GCD(ic, m * d))
    IN  [set |-> TRUE, coef |-> <<(m * n1) \div g, (m * n2) \div g>>,
         intercept |-> ic \div g, den |-> (m * d) \div g]

\* den * reg.predict(np.hstack([x1, x2]))
Predict(reg, x1, x2) ==
    [i \in 1..Len(x1) |-> reg.intercept + reg.coef[1] * x1[i] + reg.coef[2] * x2[i]]

(***************************************************************************)
(* UnawarePolicy                                                           *)
(***************************************************************************)
\* What train raises, if anything: np.hstack needs equal row counts,
\* train_test_split equal lengths of X and y and a non-empty training set.
UnawareTrainError(G, L, F) ==
    Len(G) # Len(L) \/ Len(G) # Len(F) \/ NTrain(Len(G)) = 0

\* A fit that is made once and kept from then on.
UnawareFitOnce(self_F_reg, G, L, F, seed) ==
    IF self_F_reg.set THEN self_F_reg
    ELSE LET T == TrainRows(Len(G), seed)
         IN  LinearRegressionFit(Take(G, T), Take(L, T), Take(F, T))

\* A re-fit whose split goes on from where the generator was left by the
\* fit before it, whatever state it was put in since.
UnawareFitStream(self_F_reg, G, L, F, seed) ==
    LET T == TrainRows(Len(G), seed + (IF self_F_reg.set THEN 1 ELSE 0))
    IN  LinearRegressionFit(Take(G, T), Take(L, T), Take(F, T))

\* self.F_reg after train(G, L, F): the fit on the training rows of the split.
UnawareFit(self_F_reg, G, L, F, seed) ==
    LET T == TrainRows(Len(G), seed)
    IN  LinearRegressionFit(Take(G, T), Take(L, T), Take(F, T))

UnawareTrain(rows, short, seed) ==
    LET G == Arg("G", rows, short)
        L == Arg("L", rows, short)
        F == Arg("F", rows, short)
    IN  /\ cls = "UnawarePolicy"
        /\ ret = NoCall
        /\ IF UnawareTrainError(G, L, F)
           THEN /\ Failed("train", rows, short, NoneSeats, seed,
                          Prior(rows, short, seed), "ValueError")
                /\ UNCHANGED <<F_reg, fitBy>>
           ELSE /\ F_reg' = UnawareFit(F_reg, G, L, F, seed)
                /\ fitBy' = Returned(rows, seed)
                /\ Failed("train", rows, short, NoneSeats, seed,
                          Prior(rows, short, seed), "returned")
        /\ UNCHANGED <<cls, data, G_reg, L_reg, A_reg, sgn>>

\* F_hat = self.F_reg.predict(np.hstack([G, L]))
UnawareScore(reg, G, L) ==
    LET F_hat == Predict(reg, G, L)
        Cmp(i, j) == Sign(F_hat[i] - F_hat[j])
    IN  Scores(FALSE, OrderKeys(Len(G), [i \in 1..Len(G) |-> [j \in 1..Len(G) |-> Cmp(i, j)]]))

UnawareEvaluate(rows, short, nb_seats) ==
    LET G == Arg("G", rows, short)
        L == Arg("L", rows, short)
        out == EvaluateOutcome(<<G, L>>, nb_seats, F_reg.set)
    IN  /\ cls = "UnawarePolicy"
        /\ ret = NoCall
        /\ IF out # "returned"
           THEN Failed("evaluate", rows, short, nb_seats, 0, "none", out)
           ELSE Ranked(rows, short, nb_seats, UnawareScore(F_reg, G, L))
        /\ UNCHANGED <<cls, data, F_reg, G_reg, L_reg, A_reg, sgn, fitBy>>

(***************************************************************************)
(* FairPolicy                                                              *)
(***************************************************************************)
\* den_G * den_L * (G - self.G_reg.predict(np.hstack([R, S]))) and the same
\* for L: the two residual columns over their common denominator.
Residuals(g_reg, l_reg, R, S, G, L) ==
    LET pG == Predict(g_reg, R, S)
        pL == Predict(l_reg, R, S)
    IN  [x |-> [i \in 1..Len(G) |-> (g_reg.den * G[i] - pG[i]) * l_reg.den],
         y |-> [i \in 1..Len(L) |-> (l_reg.den * L[i] - pL[i]) * g_reg.den],
         den |-> g_reg.den * l_reg.den]

\* The first principal direction of the 2 x 2 scatter matrix [[a, b], [b, c]]
\* as (p[1] + q[1] * sqrt(rad), p[2] + q[2] * sqrt(rad)).
Direction(a, b, c) ==
    LET rad == (a - c) * (a - c) + 4 * b * b
    IN  IF a >= c THEN [p |-> <<a - c, 2 * b>>, q |-> <<1, 0>>, rad |-> rad]
        ELSE [p |-> <<2 * b, c - a>>, q |-> <<0, 1>>, rad |-> rad]

\* PCA(whiten=True, n_components=1).fit(np.hstack([G_err, L_err])).  With an
\* isotropic scatter (a = c, b = 0) every direction is a first component; the
\* singular vectors of a matrix with orthogonal columns of one length are the
\* axes, and the first is kept.
PCAFit(res) ==
    LET n == Len(res.x)
        cx == Deviations(res.x)
        cy == Deviations(res.y)
        a0 == Dot(cx, cx)
        b0 == Dot(cx, cy)
        c0 == Dot(cy, cy)
        g == IF a0 + c0 = 0 THEN 1 ELSE GCD(GCD(a0, b0), c0)
        a == a0 \div g
        b == b0 \div g
        c == c0 \div g
    IN  [set |-> TRUE, mean |-> <<SumSeq(res.x), SumSeq(res.y)>>,
         den |-> n * res.den, explained_variance_zero |-> (a0 + c0 = 0),
         components |-> IF a = c /\ b = 0
                        THEN [p |-> <<1, 0>>, q |-> <<0, 0>>, rad |-> 0]
                        ELSE Direction(a, b, c)]

\* The sign of (x, y) . components as a_reg.transform would compute it.
ProjSign(a_reg, x, y) ==
    LET d == a_reg.components
    IN  SignSqrtSum(x * d.p[1] + y * d.p[2], 1, x * d.q[1] + y * d.q[2], d.rad)

\* np.sign(np.corrcoef(self.A_reg.transform(...).T, G.T)[0, 1]): NaN when
\* either side has no variance, else the sign of the covariance.
CorrSign(a_reg, res, G) ==
    LET cx == Deviations(res.x)
        cy == Deviations(res.y)
        dg == Deviations(G)
        d == a_reg.components
        P == SumSeq([i \in 1..Len(G) |-> (cx[i] * d.p[1] + cy[i] * d.p[2]) * dg[i]])
        Q == SumSeq([i \in 1..Len(G) |-> (cx[i] * d.q[1] + cy[i] * d.q[2]) * dg[i]])
    IN  IF a_reg.explained_variance_zero \/ SumSqDev(G) = 0
        THEN [set |-> TRUE, nan |-> TRUE, val |-> 0]
        ELSE [set |-> TRUE, nan |-> FALSE, val |-> SignSqrtSum(P, 1, Q, d.rad)]

Instance(g_reg, l_reg, a_reg, s) ==
    [G_reg |-> g_reg, L_reg |-> l_reg, A_reg |-> a_reg, sgn |-> s]

\* The instance train(R, S, G, L) leaves behind, with what the call did
\* (out).  Every assignment to self made before an exception stays.
FairFit(self, R, S, G, L, seed) ==
    LET n == Len(R)
        gFull == LinearRegressionFit(R, S, G)
        T1 == TrainRows(n, seed)
        gReg == LinearRegressionFit(Take(R, T1), Take(S, T1), Take(G, T1))
        T2 == TrainRows(n, seed + 1)
        lReg == LinearRegressionFit(Take(R, T2), Take(S, T2), Take(L, T2))
        res == Residuals(gReg, lReg, R, S, G, L)
    IN  IF Len(R) # Len(S) \/ Len(R) # Len(G)
        THEN [self |-> self, out |-> "ValueError"]
        ELSE IF NTrain(n) = 0
        THEN [self |-> [self EXCEPT !.G_reg = gFull], out |-> "ValueError"]
        ELSE IF Len(L) # Len(R)
        THEN [self |-> [self EXCEPT !.G_reg = gReg], out |-> "ValueError"]
        ELSE [self |-> Instance(gReg, lReg, PCAFit(res), CorrSign(PCAFit(res), res, G)),
              out |-> "returned"]

FairTrain(rows, short, seed) ==
    LET R == Arg("R", rows, short)
        S == Arg("S", rows, short)
        G == Arg("G", rows, short)
        L == Arg("L", rows, short)
    IN  /\ cls = "FairPolicy"
        /\ ret = NoCall
        /\ \E r \in {FairFit(Instance(G_reg, L_reg, A_reg, sgn), R, S, G, L, seed)} :
              /\ G_reg' = r.self.G_reg
              /\ L_reg' = r.self.L_reg
              /\ A_reg' = r.self.A_reg
              /\ sgn' = r.self.sgn
              /\ fitBy' = IF r.out = "returned" THEN Returned(rows, seed)
                          ELSE IF r.self = Instance(G_reg, L_reg, A_reg, sgn) THEN fitBy
                          ELSE Raised
              /\ Failed("train", rows, short, NoneSeats, seed,
                        Prior(rows, short, seed), r.out)
        /\ UNCHANGED <<cls, data, F_reg>>

\* A_hat = self.sgn * self.A_reg.transform(np.hstack([G_err, L_err])): NaN
\* throughout when sgn is NaN, zero throughout when sgn is 0.  transform
\* subtracts the same mean from every row, so the order of two rows is the
\* sign of the projection of their difference.
FairScore(self, R, S, G, L) ==
    LET res == Residuals(self.G_reg, self.L_reg, R, S, G, L)
        Cmp(i, j) == self.sgn.val * ProjSign(self.A_reg, res.x[i] - res.x[j],
                                             res.y[i] - res.y[j])
    IN  IF self.sgn.nan
        THEN Scores(TRUE, [i \in 1..Len(G) |-> 0])
        ELSE Scores(FALSE, OrderKeys(Len(G), [i \in 1..Len(G) |-> [j \in 1..Len(G) |-> Cmp(i, j)]]))

FairEvaluate(rows, short, nb_seats) ==
    LET R == Arg("R", rows, short)
        S == Arg("S", rows, short)
        G == Arg("G", rows, short)
        L == Arg("L", rows, short)
        out == EvaluateOutcome(<<R, S, G, L>>, nb_seats,
                               G_reg.set /\ L_reg.set /\ A_reg.set /\ sgn.set)
    IN  /\ cls = "FairPolicy"
        /\ ret = NoCall
        /\ IF out # "returned"
           THEN Failed("evaluate", rows, short, nb_seats, 0, "none", out)
           ELSE Ranked(rows, short, nb_seats,
                       FairScore(Instance(G_reg, L_reg, A_reg, sgn), R, S, G, L))
        /\ UNCHANGED <<cls, data, F_reg, G_reg, L_reg, A_reg, sgn, fitBy>>

\* The caller takes the result (or the exception) and goes on.
Continue ==
    /\ ret # NoCall
    /\ ret' = NoCall
    /\ UNCHANGED <<cls, data, F_reg, G_reg, L_reg, A_reg, sgn, fitBy>>

\* The columns a method takes.
ArgsOf(c, op) ==
    IF c = "FairPolicy" THEN {"R", "S", "G", "L"}
    ELSE IF op = "train" THEN {"G", "L", "F"}
    ELSE {"G", "L"}

\* The shapes a call's arguments come in: the first rows of every column, or
\* all rows with one column a row short.
CallShapes(c, op) ==
    {<<m, "none">> : m \in 1..MaxObs} \cup {<<MaxObs, a>> : a \in ArgsOf(c, op)}

TrainCalls(c) ==
    {<<sh[1], sh[2], seed>> : sh \in CallShapes(c, "train"), seed \in 0..(NumSeeds - 1)}

\* Every nb_seats with arguments of one shape; None, 1 and 0 with a column short.
EvaluateCalls(c) ==
    {<<m, "none", s>> : m \in 1..MaxObs, s \in Seats}
    \cup {<<MaxObs, a, s>> : a \in ArgsOf(c, "evaluate"),
                             s \in {NoneSeats, [kind |-> "int", val |-> 1],
                                    [kind |-> "int", val |-> 0]}}

\* Calls of naive_policy: every nb_seats, and none, with arguments of one
\* shape; none and 1 with a column short.
NaivePolicyCalls ==
    {<<m, "none", s>> : m \in 1..MaxObs, s \in Seats \cup {OmittedSeats}}
    \cup {<<MaxObs, a, s>> : a \in {"G", "L"},
                             s \in {OmittedSeats, [kind |-> "int", val |-> 1]}}

\* What the module-level name F may be bound to when naive_policy runs: a
\* column of 1..MaxObs rows (only its shape is read).
ModuleLevelF == {SubSeq(f, 1, m) : f \in Columns(MaxObs, 0), m \in 1..MaxObs}

\* The experiment's columns.  G, L and F range over every column of MaxObs
\* values in 0..MaxVal; R is any 0/1 column and S is R read from the last row
\* to the first.  For naive_policy F is the module-level F.
DataSets(c) ==
    IF c = "naive_policy"
    THEN {[G |-> g, L |-> l, F |-> f] :
             g, l \in Columns(MaxObs, MaxVal), f \in ModuleLevelF}
    ELSE IF c = "NaivePolicy"
    THEN {[G |-> g, L |-> l] : g, l \in Columns(MaxObs, MaxVal)}
    ELSE IF c = "UnawarePolicy"
    THEN {[G |-> g, L |-> l, F |-> f] : g, l, f \in Columns(MaxObs, MaxVal)}
    ELSE {[R |-> r, S |-> Reverse(r), G |-> g, L |-> l] :
             r \in Columns(MaxObs, 1), g, l \in Columns(MaxObs, MaxVal)}

Classes == {"naive_policy", "NaivePolicy", "UnawarePolicy", "FairPolicy"}

Init ==
    /\ cls \in Classes
    /\ data \in DataSets(cls)
    /\ F_reg = Construct(cls).F_reg
    /\ G_reg = Construct(cls).G_reg
    /\ L_reg = Construct(cls).L_reg
    /\ A_reg = Construct(cls).A_reg
    /\ sgn = Construct(cls).sgn
    /\ fitBy = NeverTrained
    /\ ret = NoCall

Next ==
    \/ \E c \in NaivePolicyCalls : naive_policy(c[1], c[2], c[3])
    \/ \E c \in EvaluateCalls("NaivePolicy") : NaiveEvaluate(c[1], c[2], c[3])
    \/ \E c \in TrainCalls("UnawarePolicy") : UnawareTrain(c[1], c[2], c[3])
    \/ \E c \in EvaluateCalls("UnawarePolicy") : UnawareEvaluate(c[1], c[2], c[3])
    \/ \E c \in TrainCalls("FairPolicy") : FairTrain(c[1], c[2], c[3])
    \/ \E c \in EvaluateCalls("FairPolicy") : FairEvaluate(c[1], c[2], c[3])
    \/ Continue

Spec == Init /\ [][Next]_vars

(***************************************************************************)
(* Properties.                                                             *)
(***************************************************************************)
Evaluated == ret.op = "evaluate"

Masked == ret.op = "evaluate" /\ ret.out = "returned"

Accepted == {i \in 1..Len(ret.P) : ret.P[i]}

Rejected == {i \in 1..Len(ret.P) : ~ret.P[i]}

\* Every fitted attribute evaluate reads is there.
Fitted ==
    \/ cls = "NaivePolicy"
    \/ cls = "UnawarePolicy" /\ F_reg.set
    \/ cls = "FairPolicy" /\ G_reg.set /\ L_reg.set /\ A_reg.set /\ sgn.set

PositiveInt(s) == IsInstanceInt(s) /\ s.val > 0

\* C1: with same-shaped inputs of nb_obs rows and an integer nb_seats > 0,
\* evaluate of a usable policy returns a mask of length nb_obs with exactly
\* min(nb_seats, nb_obs) true entries, ties or not.
C1_ExactSeatCount ==
    (Evaluated /\ ret.short = "none" /\ PositiveInt(ret.seats) /\ Fitted)
        => /\ ret.out = "returned"
           /\ Len(ret.P) = ret.rows
           /\ Cardinality(Accepted) = Min(ret.seats.val, ret.rows)

\* C1 witness: an UnawarePolicy mask with fewer seats than rows, cut through
\* a tie (an accepted and a rejected row score the same).
C1_Witness ==
    /\ Masked /\ cls = "UnawarePolicy"
    /\ PositiveInt(ret.seats) /\ ret.seats.val < ret.rows
    /\ \E i \in Accepted, j \in Rejected : ret.score.key[i] = ret.score.key[j]

\* C2: the accepted rows are the top rows of the policy's score: when the
\* scores are numbers, no rejected row scores above an accepted one.
C2_TopScores ==
    (Masked /\ ~ret.score.nan)
        => \A i \in Accepted, j \in Rejected : ret.score.key[i] >= ret.score.key[j]

\* C2 witness: a FairPolicy mask over rows with pairwise distinct scores,
\* some accepted and some rejected.
C2_Witness ==
    /\ Masked /\ cls = "FairPolicy" /\ ~ret.score.nan
    /\ Accepted # {} /\ Rejected # {}
    /\ \A i, j \in 1..Len(ret.P) : i # j => ret.score.key[i] # ret.score.key[j]

\* C3: evaluate on an UnawarePolicy or FairPolicy on which train was never
\* called fails and returns no mask, with AttributeError once the
\* preconditions hold; NaivePolicy.evaluate never needs a fit.
C3_EvaluateBeforeTrain ==
    /\ (Evaluated /\ cls # "NaivePolicy" /\ fitBy.status = "never")
           => /\ ret.out \in {"AssertionError", "AttributeError"}
              /\ ret.P = <<>>
              /\ (ret.short = "none" /\ SeatsValid(ret.seats))
                     => ret.out = "AttributeError"
    /\ (Evaluated /\ cls = "NaivePolicy")
           => /\ ret.out # "AttributeError"
              /\ (ret.short = "none" /\ SeatsValid(ret.seats)) => ret.out = "returned"

\* C3 witness: a FairPolicy that was never trained raised AttributeError.
C3_Witness ==
    /\ Evaluated /\ cls = "FairPolicy" /\ fitBy.status = "never"
    /\ ret.out = "AttributeError"

\* The arguments of the most recent train call.
FitArg(c) == Arg(c, fitBy.rows, "none")

\* C4: once a train call has returned, the policy is Trained and its fitted
\* parameters are those that call computes from its own arguments, whatever
\* was fitted before; evaluate ranks by the score of those parameters.
C4_RefitOverwrites ==
    fitBy.status = "returned"
        => /\ Fitted
           /\ cls = "UnawarePolicy"
                  => /\ F_reg = UnawareFit(NoAttr, FitArg("G"), FitArg("L"),
                                           FitArg("F"), fitBy.seed)
                     /\ Masked => ret.score = UnawareScore(F_reg, Arg("G", ret.rows, "none"),
                                                           Arg("L", ret.rows, "none"))
           /\ cls = "FairPolicy"
                  => /\ FairFit(Instance(NoAttr, NoAttr, NoAttr, NoAttr),
                                 FitArg("R"), FitArg("S"), FitArg("G"),
                                 FitArg("L"), fitBy.seed).self
                            = Instance(G_reg, L_reg, A_reg, sgn)
                     /\ Masked => ret.score =
                            FairScore(Instance(G_reg, L_reg, A_reg, sgn),
                                      Arg("R", ret.rows, "none"), Arg("S", ret.rows, "none"),
                                      Arg("G", ret.rows, "none"), Arg("L", ret.rows, "none"))

\* C4 witness: train has returned on a FairPolicy that an earlier train call
\* with other arguments had already fitted.
C4_Witness ==
    /\ cls = "FairPolicy" /\ ret.op = "train" /\ ret.out = "returned"
    /\ ret.prior = "other"

\* C5: evaluate with inputs whose shapes differ raises AssertionError before
\* any score is computed and returns no mask.
C5_ShapeMismatch ==
    (Evaluated /\ ret.short # "none")
        => ret.out = "AssertionError" /\ ~ret.score.computed /\ ret.P = <<>>

\* C5 witness: a trained FairPolicy given an L column a row short, with a
\* valid nb_seats, raised AssertionError.
C5_Witness ==
    /\ Evaluated /\ cls = "FairPolicy" /\ Fitted /\ ret.short = "L"
    /\ SeatsValid(ret.seats) /\ ret.out = "AssertionError"

\* C6: evaluate with an explicit nb_seats that is not an int (a float) or is
\* not strictly positive raises AssertionError and returns no mask.
C6_InvalidSeats ==
    (Evaluated /\ ret.seats.kind # "NoneType"
        /\ (~IsInstanceInt(ret.seats) \/ ret.seats.val <= 0))
        => ret.out = "AssertionError" /\ ret.P = <<>>

\* C6 witness: a trained UnawarePolicy given same-shaped inputs and a float
\* nb_seats raised AssertionError.
C6_Witness ==
    /\ Evaluated /\ cls = "UnawarePolicy" /\ Fitted /\ ret.short = "none"
    /\ ret.seats.kind = "float" /\ ret.out = "AssertionError"

\* C7: the partition drawn inside train does not influence the fitted
\* parameters: whatever generator state the split starts from, train on the
\* same data leaves the same parameters.
C7_PartitionIrrelevant ==
    fitBy.status = "returned"
        => /\ cls = "UnawarePolicy"
                  => \A seed \in 0..(NumSeeds - 1) :
                         F_reg = UnawareFit(NoAttr, FitArg("G"), FitArg("L"),
                                            FitArg("F"), seed)
           /\ cls = "FairPolicy"
                  => \A seed \in 0..(NumSeeds - 1) :
                         FairFit(Instance(NoAttr, NoAttr, NoAttr, NoAttr),
                                 FitArg("R"), FitArg("S"), FitArg("G"),
                                 FitArg("L"), seed).self
                             = Instance(G_reg, L_reg, A_reg, sgn)

C9_EveryoneAccepted ==
    (Evaluated /\ ret.short = "none" /\ Fitted
        /\ (ret.seats.kind = "NoneType"
            \/ (IsInstanceInt(ret.seats) /\ ret.seats.val >= ret.rows /\ ret.seats.val > 0)))
        => /\ ret.out = "returned"
           /\ Len(ret.P) = ret.rows
           /\ \A i \in 1..ret.rows : ret.P[i]

\* C9 witness: FairPolicy.evaluate on its own training data with
\* nb_seats = nb_obs, two rows scoring the same, accepted every row.
C9_Witness ==
    /\ Masked /\ cls = "FairPolicy" /\ fitBy.status = "returned"
    /\ ret.rows = fitBy.rows /\ ret.seats = [kind |-> "int", val |-> ret.rows]
    /\ \E i, j \in 1..ret.rows : i # j /\ ret.score.key[i] = ret.score.key[j]
    /\ \A i \in 1..ret.rows : ret.P[i]

\* nb_seats after the nb_seats block of the call in ret.
SeatsTaken == IF ret.seats.kind = "NoneType" THEN ret.rows ELSE Min(ret.rows, ret.seats.val)

Above(i) == {j \in 1..Len(ret.P) : ret.score.key[j] > ret.score.key[i]}

NotBelow(i) == {j \in 1..Len(ret.P) : ret.score.key[j] >= ret.score.key[i]}

\* C10 as stated: among rows tied at the cutoff the ones with the larger
\* original index are accepted (the last positions of a stable ascending sort).
C10_StableTieBreak ==
    Masked => \A i \in Accepted, j \in Rejected :
                  ret.score.key[i] = ret.score.key[j] => i > j

\* C10 amended: the accepted rows are the last nb_seats positions of an
\* ascending argsort that is not stable: a row with fewer than nb_seats rows
\* scoring at least as high is accepted, a row with nb_seats rows scoring
\* strictly higher is rejected, and the rows tied at the cutoff fill the
\* remaining seats in no fixed order of index.
C10_CutoffTies ==
    Masked => /\ Cardinality(Accepted) = SeatsTaken
              /\ \A i \in 1..Len(ret.P) :
                    /\ Cardinality(NotBelow(i)) <= SeatsTaken => ret.P[i]
                    /\ Cardinality(Above(i)) >= SeatsTaken => ~ret.P[i]

\* C10 witness: a tie at the cutoff settled against the original order: the
\* accepted row comes before a rejected row with the same score.
C10_Witness ==
    /\ Masked
    /\ \E i \in Accepted, j \in Rejected : ret.score.key[i] = ret.score.key[j] /\ i < j
    /\ \E i \in Accepted : Above(i) # {}

\* C11: after FairPolicy.train with R and S all zero the two regressions
\* predict the mean of the whole G column and of the whole L column (so the
\* residuals are G - mean(G) and L - mean(L)).
C11_ZeroProtectedMeans ==
    (cls = "FairPolicy" /\ fitBy.status = "returned"
        /\ \A i \in 1..fitBy.rows : FitArg("R")[i] = 0 /\ FitArg("S")[i] = 0)
        => /\ G_reg.intercept * fitBy.rows = G_reg.den * SumSeq(FitArg("G"))
           /\ L_reg.intercept * fitBy.rows = L_reg.den * SumSeq(FitArg("L"))

\* Every entry of the column is the same value.
ConstantColumn(x) == \A i, j \in 1..Len(x) : x[i] = x[j]

\* C12: NaivePolicy.evaluate does not guard a constant G or L column: with
\* its preconditions met the call raises nothing, every score is NaN, and
\* the NaN scores are ranked into a mask like any others.
C12_ConstantColumnNaN ==
    (Evaluated /\ cls = "NaivePolicy" /\ ret.short = "none" /\ SeatsValid(ret.seats)
        /\ (ConstantColumn(Arg("G", ret.rows, "none"))
            \/ ConstantColumn(Arg("L", ret.rows, "none"))))
        => /\ ret.out = "returned"
           /\ ret.score.computed /\ ret.score.nan
           /\ Len(ret.P) = ret.rows
           /\ Cardinality(Accepted) = SeatsTaken

\* C12 witness: G is constant and L is not; the call returned a mask that
\* accepts some rows and rejects others, ranked on NaN scores.
C12_Witness ==
    /\ Masked /\ cls = "NaivePolicy" /\ ret.score.nan
    /\ ConstantColumn(Arg("G", ret.rows, "none"))
    /\ ~ConstantColumn(Arg("L", ret.rows, "none"))
    /\ Accepted # {} /\ Rejected # {}

\* A call of naive_policy with arguments of one shape.
NaivePolicyCalled == ret.op = "naive_policy" /\ ret.short = "none"

\* C13: what a policy operation does depends on its arguments (and the
\* instance's fitted parameters) only: naive_policy called with the same G, L
\* and nb_seats ends the same way whatever the module-level F is.
C13_ExplicitArgumentsOnly ==
    NaivePolicyCalled
        => \A f \in ModuleLevelF :
               naive_policy_outcome(Arg("G", ret.rows, "none"), Arg("L", ret.rows, "none"),
                                    f, ret.seats) = ret.out

\* The nb_seats of the naive_policy call in ret, when it is an integer >= 0
\* (ints, True, the default).
SeatsAsked == SeatsParameter(ret.seats)

\* C14: naive_policy called with an integer nb_seats >= 0 (0 and the default
\* included) returns a mask with exactly min(nb_seats, nb_obs) true entries,
\* and accepts everyone only when nb_seats >= nb_obs.
C14_NaivePolicySeatCount ==
    (NaivePolicyCalled /\ ret.out = "returned"
        /\ IsInstanceInt(SeatsAsked) /\ SeatsAsked.val >= 0)
        => /\ Len(ret.P) = ret.rows
           /\ Cardinality(Accepted) = Min(SeatsAsked.val, ret.rows)
           /\ Rejected = {} => SeatsAsked.val >= ret.rows

\* A FairPolicy instance on which no attribute has been assigned.
Unfitted == Instance(NoAttr, NoAttr, NoAttr, NoAttr)

\* C15: the fitted parameters of a FairPolicy are all absent, or all
\* produced by one train call (a failed train changes none of them).
C15_AllOrNothing ==
    cls = "FairPolicy"
        => \/ Instance(G_reg, L_reg, A_reg, sgn) = Unfitted
           \/ /\ fitBy.status = "returned"
              /\ FairFit(Unfitted, FitArg("R"), FitArg("S"), FitArg("G"), FitArg("L"),
                         fitBy.seed).self
                     = Instance(G_reg, L_reg, A_reg, sgn)

\* C16: UnawarePolicy.evaluate and FairPolicy.evaluate check the shapes,
\* then nb_seats, then use the fitted parameters: mismatched shapes or an
\* invalid nb_seats raise AssertionError trained or not, and AttributeError
\* is raised only when both preconditions hold.
C16_CheckOrder ==
    (Evaluated /\ cls \in {"UnawarePolicy", "FairPolicy"})
        => /\ (ret.short # "none" \/ ~SeatsValid(ret.seats)) => ret.out = "AssertionError"
           /\ ret.out = "AttributeError"
                  => ret.short = "none" /\ SeatsValid(ret.seats) /\ ~Fitted

\* C16 witness: an UnawarePolicy without a fit, given same-shaped inputs and
\* nb_seats = 0, raised AssertionError (not AttributeError).
C16_Witness ==
    /\ Evaluated /\ cls = "UnawarePolicy" /\ ~F_reg.set
    /\ ret.short = "none" /\ ret.seats = [kind |-> "int", val |-> 0]
    /\ ret.out = "AssertionError"
====
